---------------------------- MODULE Spec2Model ----------------------------
(* Routing-decision core of coderveda27/Network-Topologies                *)
(* (src/complex_topologies.py): the three distance metrics, the two       *)
(* greedy selectors with their in-place filtering loops, the path score,  *)
(* and route_packet of the six strategy classes.                          *)
EXTENDS Integers, Sequences, FiniteSets, TLC

VARIABLES network, key_order, strategy, occupancy, packet, current_address, ret, call,
          route_length

vars == <<network, key_order, strategy, occupancy, packet, current_address, ret, call,
          route_length>>

(* ------------------------------ bounds -------------------------------- *)
\* Rings have 2..MaxRing nodes.
MaxRing == 6
\* Tori have side >= 2 and side * side <= MaxTorusNodes nodes.
MaxTorusNodes == 9
\* Stars have k1 >= 1 hubs and k2 >= 1 spokes with k1 + k2 <= MaxStarNodes.
MaxStarNodes == 4
\* Greedy-path networks have at most MaxPathNodes nodes.
MaxPathNodes == 4
\* Total occupancy the simulation puts on the channels of a network.
MaxLoad == 1
\* Candidate lists handed directly to the selectors.
MaxCandidates == 3
MaxDist == 2
MaxOcc == 2
\* Paths handed directly to compute_path_score.
MaxPathLen == 4
\* Most hops one packet is followed for.
MaxHops == 6

(* ----------------------------- helpers -------------------------------- *)
Abs(x) == IF x < 0 THEN -x ELSE x

Min2(x, y) == IF x <= y THEN x ELSE y

Max2(x, y) == IF x >= y THEN x ELSE y

\* Python's % on a positive modulus (TLA+ % agrees for k > 0).
PyMod(x, k) == x % k

(* ------------------------- network layer ------------------------------ *)
\* A network instance: kind and shape parameters (k for ring size / torus
\* side, k1 hubs and k2 spokes for a star).
RingNet(k) == [kind |-> "ring", k |-> k, k1 |-> 0, k2 |-> 0]

TorusNet(k) == [kind |-> "torus", k |-> k, k1 |-> 0, k2 |-> 0]

StarNet(k1, k2) == [kind |-> "star", k |-> 0, k1 |-> k1, k2 |-> k2]

Networks ==
    {RingNet(k) : k \in 2..MaxRing}
    \cup {TorusNet(k) : k \in {s \in 2..MaxTorusNodes : s * s <= MaxTorusNodes}}
    \cup {StarNet(p[1], p[2]) :
             p \in {q \in (1..MaxStarNodes) \X (1..MaxStarNodes) :
                       q[1] + q[2] <= MaxStarNodes}}

\* self._nodes.keys()
Nodes(net) ==
    CASE net.kind = "ring" -> 0..(net.k - 1)
      [] net.kind = "torus" -> (0..(net.k - 1)) \X (0..(net.k - 1))
      [] net.kind = "star" -> 0..(net.k1 + net.k2 - 1)

\* len(self._nodes)
NumNodes(net) == Cardinality(Nodes(net))

\* set(self._nodes[a].channels.keys())
Adjacent(net, a) ==
    CASE net.kind = "ring" ->
            {PyMod(a + 1, net.k), PyMod(a - 1, net.k)} \ {a}
      [] net.kind = "torus" ->
            {<<PyMod(a[1] + 1, net.k), a[2]>>, <<PyMod(a[1] - 1, net.k), a[2]>>,
             <<a[1], PyMod(a[2] + 1, net.k)>>, <<a[1], PyMod(a[2] - 1, net.k)>>} \ {a}
      [] net.kind = "star" ->
            IF a < net.k1 THEN Nodes(net) \ {a} ELSE 0..(net.k1 - 1)

\* A channel is the undirected link between two addresses.
ChannelOf(a, b) == {a, b}

Channels(net) == {ChannelOf(a, b) : a \in Nodes(net), b \in Nodes(net)} \cap
                 UNION {{ChannelOf(a, b) : b \in Adjacent(net, a)} : a \in Nodes(net)}

(* ------------------------- distance metrics --------------------------- *)
\* GreedyChannelRing.get_distance
RingGetDistance(net, n1, n2) ==
    LET k == NumNodes(net)
        left_dist == IF n2 > n1 THEN k - (n2 - n1) ELSE n2 - n1
        right_dist == IF n2 > n1 THEN n2 - n1 ELSE k - (n2 - n1)
    IN  IF n1 = n2 THEN 0
        ELSE IF left_dist >= right_dist THEN right_dist ELSE left_dist

\* GreedyChannelTorus.get_ring_distance
TorusGetRingDistance(net, n1, n2) ==
    LET k == NumNodes(net)
        left_dist == IF n2 > n1 THEN Abs(k - (n2 - n1)) ELSE Abs(n2 - n1)
        right_dist == IF n2 > n1 THEN Abs(n2 - n1) ELSE Abs(k - (n2 - n1))
    IN  IF n1 = n2 THEN 0
        ELSE IF left_dist >= right_dist THEN right_dist ELSE left_dist

\* GreedyChannelTorus.get_distance
TorusGetDistance(net, n1, n2) ==
    LET x_dist == TorusGetRingDistance(net, n1[1], n2[1])
        y_dist == TorusGetRingDistance(net, n1[2], n2[2])
    IN  x_dist + y_dist

StarGetDistanceHubOnlyN2(net, n1, n2) ==
    LET length == NumNodes(net)
        k1 == Cardinality({n \in Nodes(net) :
                              Cardinality(Adjacent(net, n)) = length - 1})
        central_nodes == 0..(k1 - 1)
    IN  IF n1 = n2 THEN 0
        ELSE IF n2 \in central_nodes THEN 1 ELSE 2

\* GreedyChannelStar.get_distance
StarGetDistance(net, n1, n2) ==
    LET length == NumNodes(net)
        k1 == Cardinality({n \in Nodes(net) :
                              Cardinality(Adjacent(net, n)) = length - 1})
        central_nodes == 0..(k1 - 1)
    IN  IF n1 = n2 THEN 0
        ELSE IF n2 \in central_nodes \/ n1 \in central_nodes THEN 1 ELSE 2

\* self.get_distance of the three greedy-channel classes
GetDistance(net, n1, n2) ==
    CASE net.kind = "ring" -> RingGetDistance(net, n1, n2)
      [] net.kind = "torus" -> TorusGetDistance(net, n1, n2)
      [] net.kind = "star" -> StarGetDistance(net, n1, n2)

(* ------------------------- list primitives ---------------------------- *)
\* list.remove(x): delete the first element equal to x.
RECURSIVE ListRemove(_, _)
ListRemove(l, x) ==
    IF l = <<>> THEN <<>>
    ELSE IF Head(l) = x THEN Tail(l)
    ELSE <<Head(l)>> \o ListRemove(Tail(l), x)

\* random.randint(a, b): any integer N with a <= N <= b.
RandInt(a, b) == a..b

\* Results of a selector or of route_packet.
Returned(c) == [status |-> "channel", channel |-> c]

ReturnedNone == [status |-> "None", channel |-> {}]

RaisedIndexError == [status |-> "IndexError", channel |-> {}]

(* ------------------------- path score --------------------------------- *)
\* compute_path_score: score += max(c.total_occupancy() - i, 0) over
\* enumerate(path), i from 0; return k + score.
\* enumerate(path) taken to start at 1 instead of 0.
RECURSIVE PathScoreSumFromOne(_, _, _)
PathScoreSumFromOne(path, occ, i) ==
    IF i > Len(path) THEN 0
    ELSE Max2(occ[path[i]] - i, 0) + PathScoreSumFromOne(path, occ, i + 1)

RECURSIVE PathScoreSum(_, _, _)
PathScoreSum(path, occ, i) ==
    IF i > Len(path) THEN 0
    ELSE Max2(occ[path[i]] - (i - 1), 0) + PathScoreSum(path, occ, i + 1)

compute_path_score(path, occ) == Len(path) + PathScoreSum(path, occ, 1)

(* ---------------------- greedy_channel_select ------------------------- *)
\* A candidate is <<d, channel>>; occ maps a channel to total_occupancy().
ChannelScore(cand, occ) == cand[1] + occ[cand[2]]

\* Lines 227-235: the scan for min_score and min_dist; returns
\* <<min_dist, min_score>> after candidates i..Len(channels).
RECURSIVE ChannelMinScan(_, _, _, _, _)
ChannelMinScan(channels, occ, i, min_dist, min_score) ==
    IF i > Len(channels) THEN <<min_dist, min_score>>
    ELSE LET d == channels[i][1]
             score == ChannelScore(channels[i], occ)
         IN  IF score < min_score
             THEN ChannelMinScan(channels, occ, i + 1,
                                 IF d < min_dist THEN d ELSE min_dist, score)
             ELSE ChannelMinScan(channels, occ, i + 1, min_dist, min_score)

\* Lines 236-239: "for d, c in channels: if score != min_score:
\* channels.remove((d, c))". The list iterator keeps a position; a removal
\* shifts the rest left, and the position still advances.
RECURSIVE ChannelRemoveByScore(_, _, _, _)
ChannelRemoveByScore(channels, occ, i, min_score) ==
    IF i > Len(channels) THEN channels
    ELSE IF ChannelScore(channels[i], occ) # min_score
         THEN ChannelRemoveByScore(ListRemove(channels, channels[i]), occ,
                                   i + 1, min_score)
         ELSE ChannelRemoveByScore(channels, occ, i + 1, min_score)

\* Lines 241-243: "for d, c in channels: if d != min_dist:
\* channels.remove((d, c))".
RECURSIVE ChannelRemoveByDist(_, _, _)
ChannelRemoveByDist(channels, i, min_dist) ==
    IF i > Len(channels) THEN channels
    ELSE IF channels[i][1] # min_dist
         THEN ChannelRemoveByDist(ListRemove(channels, channels[i]), i + 1, min_dist)
         ELSE ChannelRemoveByDist(channels, i + 1, min_dist)

\* The list "channels" as it stands at line 244.
ChannelFiltered(channels, occ) ==
    LET mins == ChannelMinScan(channels, occ, 1, channels[1][1],
                               ChannelScore(channels[1], occ))
        stage1 == ChannelRemoveByScore(channels, occ, 1, mins[2])
    IN  IF Len(stage1) > 1 THEN ChannelRemoveByDist(stage1, 1, mins[1])
        ELSE stage1

\* The values random.randint(0, len(rest)) of lines 245 and 368 can produce
\* (a single dummy draw when the line is not reached).
Draws(rest) == IF Len(rest) > 1 THEN RandInt(0, Len(rest)) ELSE {0}

\* Lines 244-247 on the filtered list; index is the value randint drew.
ChannelPick(rest, index) ==
    IF Len(rest) > 1
    THEN IF index + 1 \in DOMAIN rest THEN Returned(rest[index + 1][2])
         ELSE RaisedIndexError
    ELSE IF rest = <<>> THEN RaisedIndexError
    ELSE Returned(rest[1][2])

greedy_channel_select(channels, occ, index) ==
    ChannelPick(ChannelFiltered(channels, occ), index)

ChannelDraws(channels, occ) == Draws(ChannelFiltered(channels, occ))

(* ------------------------ greedy_path_select -------------------------- *)
\* Lines 350-358.
RECURSIVE PathMinScan(_, _, _, _, _)
PathMinScan(paths, occ, i, min_len, min_score) ==
    IF i > Len(paths) THEN <<min_len, min_score>>
    ELSE LET score == compute_path_score(paths[i], occ)
             length == Len(paths[i])
         IN  IF score < min_score
             THEN PathMinScan(paths, occ, i + 1,
                              IF length < min_len THEN length ELSE min_len, score)
             ELSE PathMinScan(paths, occ, i + 1, min_len, min_score)

\* Lines 359-362.
RECURSIVE PathRemoveByScore(_, _, _, _)
PathRemoveByScore(paths, occ, i, min_score) ==
    IF i > Len(paths) THEN paths
    ELSE IF compute_path_score(paths[i], occ) # min_score
         THEN PathRemoveByScore(ListRemove(paths, paths[i]), occ, i + 1, min_score)
         ELSE PathRemoveByScore(paths, occ, i + 1, min_score)

\* Lines 364-366.
RECURSIVE PathRemoveByLen(_, _, _)
PathRemoveByLen(paths, i, min_len) ==
    IF i > Len(paths) THEN paths
    ELSE IF Len(paths[i]) # min_len
         THEN PathRemoveByLen(ListRemove(paths, paths[i]), i + 1, min_len)
         ELSE PathRemoveByLen(paths, i + 1, min_len)

\* The list "paths" as it stands at line 367.
PathFiltered(paths, occ) ==
    LET mins == PathMinScan(paths, occ, 1, Len(paths[1]),
                            compute_path_score(paths[1], occ))
        stage1 == PathRemoveByScore(paths, occ, 1, mins[2])
    IN  IF Len(stage1) > 1 THEN PathRemoveByLen(stage1, 1, mins[1])
        ELSE stage1

\* Lines 367-370 on the filtered list; index is the value randint drew.
PathPick(rest, index) ==
    IF Len(rest) > 1
    THEN IF index + 1 \in DOMAIN rest THEN Returned(rest[index + 1][1])
         ELSE RaisedIndexError
    ELSE IF rest = <<>> THEN RaisedIndexError
    ELSE Returned(rest[1][1])

greedy_path_select(paths, occ, index) ==
    PathPick(PathFiltered(paths, occ), index)

(* --------------------------- idle values ------------------------------ *)
NoPacket == [id |-> 0, source |-> {}, destination |-> {}]

NoAddress == {}

NoResult == [status |-> "idle", channel |-> {}]

NoCall == [fn |-> "none"]

ZeroOccupancy(net) == [c \in Channels(net) |-> 0]

(* ===================== distance-metric specification ================== *)
InitDistance ==
    /\ network \in Networks
    /\ key_order = "ascending"
    /\ strategy = "channel"
    /\ occupancy = ZeroOccupancy(network)
    /\ packet = NoPacket
    /\ current_address = NoAddress
    /\ ret = NoResult
    /\ call = NoCall
    /\ route_length = 0

CallRingGetDistance ==
    /\ network.kind = "ring"
    /\ \E n1 \in Nodes(network), n2 \in Nodes(network) :
          call' = [fn |-> "ring.get_distance", n1 |-> n1, n2 |-> n2,
                   result |-> RingGetDistance(network, n1, n2)]
    /\ UNCHANGED <<network, key_order, strategy, occupancy, packet, current_address, ret, route_length>>

CallTorusGetRingDistance ==
    /\ network.kind = "torus"
    /\ \E n1 \in 0..(network.k - 1), n2 \in 0..(network.k - 1) :
          call' = [fn |-> "torus.get_ring_distance", n1 |-> n1, n2 |-> n2,
                   result |-> TorusGetRingDistance(network, n1, n2)]
    /\ UNCHANGED <<network, key_order, strategy, occupancy, packet, current_address, ret, route_length>>

CallTorusGetDistance ==
    /\ network.kind = "torus"
    /\ \E n1 \in Nodes(network), n2 \in Nodes(network) :
          call' = [fn |-> "torus.get_distance", n1 |-> n1, n2 |-> n2,
                   result |-> TorusGetDistance(network, n1, n2)]
    /\ UNCHANGED <<network, key_order, strategy, occupancy, packet, current_address, ret, route_length>>

CallStarGetDistance ==
    /\ network.kind = "star"
    /\ \E n1 \in Nodes(network), n2 \in Nodes(network) :
          call' = [fn |-> "star.get_distance", n1 |-> n1, n2 |-> n2,
                   result |-> StarGetDistance(network, n1, n2)]
    /\ UNCHANGED <<network, key_order, strategy, occupancy, packet, current_address, ret, route_length>>

NextDistance ==
    \/ CallRingGetDistance
    \/ CallTorusGetRingDistance
    \/ CallTorusGetDistance
    \/ CallStarGetDistance

SpecDistance == InitDistance /\ [][NextDistance]_vars

(* ========================= routing specification ====================== *)
\* Position of an address in address order.
AddressKey(net, a) == IF net.kind = "torus" THEN a[1] * net.k + a[2] ELSE a

\* list(node.channels.keys()) restricted to S: the dictionary lists its keys in
\* ascending or in descending address order, as the network was built.
RECURSIVE OrderedSeq(_, _, _)
OrderedSeq(net, S, order) ==
    IF S = {} THEN <<>>
    ELSE LET first == CHOOSE a \in S : \A b \in S :
                         IF order = "descending"
                         THEN AddressKey(net, a) >= AddressKey(net, b)
                         ELSE AddressKey(net, a) <= AddressKey(net, b)
         IN  <<first>> \o OrderedSeq(net, S \ {first}, order)

\* Prefix every path of a list with a channel.
RECURSIVE PrefixAll(_, _)
PrefixAll(c, paths) ==
    IF paths = <<>> THEN <<>>
    ELSE << <<c>> \o Head(paths) >> \o PrefixAll(c, Tail(paths))

\* find_paths(start, end): all simple paths, as channel sequences, found depth
\* first over each node's channels in key order.
find_paths(net, start, end, order) ==
    LET RECURSIVE Visit(_, _)
        RECURSIVE Via(_, _, _, _)
        Visit(a, visited) ==
            IF a = end THEN << <<>> >>
            ELSE Via(a, visited, OrderedSeq(net, Adjacent(net, a) \ visited, order), 1)
        Via(a, visited, nbrs, i) ==
            IF i > Len(nbrs) THEN <<>>
            ELSE PrefixAll(ChannelOf(a, nbrs[i]), Visit(nbrs[i], visited \cup {nbrs[i]}))
                 \o Via(a, visited, nbrs, i + 1)
    IN  Visit(start, {start})

\* Lines 34-42: channels_lst built over curr_node.channels.keys(); keys holds
\* the keys not yet visited by the for loop.
RECURSIVE AppendCandidates(_, _, _, _)
AppendCandidates(net, current, dest, keys) ==
    IF keys = <<>> THEN <<>>
    ELSE << <<GetDistance(net, Head(keys), dest), ChannelOf(Head(keys), current)>> >>
         \o AppendCandidates(net, current, dest, Tail(keys))

ChannelCandidates(net, current, dest, order) ==
    AppendCandidates(net, current, dest, OrderedSeq(net, Adjacent(net, current), order))

\* route_packet of GreedyChannelRing / Torus / Star (lines 30-44); rest is
\* channels_lst of lines 34-42 as greedy_channel_select has filtered it.
GreedyChannelRoutePacket(current, pkt, rest, index) ==
    IF current = pkt.destination THEN ReturnedNone
    ELSE ChannelPick(rest, index)

\* route_packet of GreedyPathRing / Torus / Star (lines 273-278); rest is
\* self.find_paths(current_address, dest) as greedy_path_select has filtered it.
GreedyPathRoutePacket(current, pkt, rest, index) ==
    IF current = pkt.destination THEN ReturnedNone
    ELSE PathPick(rest, index)

\* The values random.randint can produce in the pending route_packet call.
RouteDraws(rest) ==
    IF current_address = packet.destination THEN {0} ELSE Draws(rest)

TotalLoad(occ) ==
    LET RECURSIVE Sum(_)
        Sum(S) == IF S = {} THEN 0
                  ELSE LET c == CHOOSE x \in S : TRUE IN occ[c] + Sum(S \ {c})
    IN  Sum(DOMAIN occ)

Running == ret.status # "IndexError"

Init ==
    /\ network \in Networks
    /\ key_order \in {"ascending", "descending"}
    /\ strategy \in {"channel", "path"}
    /\ strategy = "path" => NumNodes(network) <= MaxPathNodes
    /\ occupancy = ZeroOccupancy(network)
    /\ packet = NoPacket
    /\ current_address = NoAddress
    /\ ret = NoResult
    /\ call = NoCall
    /\ route_length = 0

\* The simulation puts a packet on a channel.
Enqueue ==
    /\ Running
    /\ TotalLoad(occupancy) < MaxLoad
    /\ \E c \in Channels(network) :
          occupancy' = [occupancy EXCEPT ![c] = @ + 1]
    /\ ret' = NoResult
    /\ UNCHANGED <<network, key_order, strategy, packet, current_address, call, route_length>>

\* A packet leaves a channel.
Dequeue ==
    /\ Running
    /\ \E c \in Channels(network) :
          /\ occupancy[c] > 0
          /\ occupancy' = [occupancy EXCEPT ![c] = @ - 1]
    /\ ret' = NoResult
    /\ UNCHANGED <<network, key_order, strategy, packet, current_address, call, route_length>>

\* The simulation hands the router a packet that has just arrived at a node.
NewPacket ==
    /\ Running
    /\ packet = NoPacket \/ ret.status = "None"
    /\ \E src \in Nodes(network), dst \in Nodes(network) :
          /\ packet' = [id |-> 1, source |-> src, destination |-> dst]
          /\ current_address' = src
    /\ ret' = NoResult
    /\ route_length' = 0
    /\ UNCHANGED <<network, key_order, strategy, occupancy, call>>

\* A router that also books the packet onto the channel it returns.
ChannelRouteBooking ==
    /\ Running
    /\ strategy = "channel"
    /\ packet # NoPacket
    /\ \E channels_lst \in {ChannelCandidates(network, current_address,
                                              packet.destination, key_order)} :
       \E rest \in {ChannelFiltered(channels_lst, occupancy)} :
       \E index \in RouteDraws(rest) :
          /\ ret' = GreedyChannelRoutePacket(current_address, packet, rest, index)
          /\ occupancy' = IF ret'.status = "channel"
                          THEN [occupancy EXCEPT ![ret'.channel] = @ + 1]
                          ELSE occupancy
    /\ UNCHANGED <<network, key_order, strategy, packet, current_address, call, route_length>>

\* One call of route_packet of a greedy-channel class (lines 30-44, 95-109,
\* 170-184) on the packet at current_address: the candidate list is built,
\* filtered and picked from.
ChannelRoute ==
    /\ Running
    /\ strategy = "channel"
    /\ packet # NoPacket
    /\ \E channels_lst \in {ChannelCandidates(network, current_address,
                                              packet.destination, key_order)} :
       \E rest \in {ChannelFiltered(channels_lst, occupancy)} :
       \E index \in RouteDraws(rest) :
          ret' = GreedyChannelRoutePacket(current_address, packet, rest, index)
    /\ UNCHANGED <<network, key_order, strategy, occupancy, packet, current_address, call, route_length>>

\* One call of route_packet of a greedy-path class (lines 273-278, 301-306,
\* 329-334).
PathRoute ==
    /\ Running
    /\ strategy = "path"
    /\ packet # NoPacket
    /\ \E channels_lst \in {find_paths(network, current_address,
                                       packet.destination, key_order)} :
       \E rest \in {PathFiltered(channels_lst, occupancy)} :
       \E index \in RouteDraws(rest) :
          ret' = GreedyPathRoutePacket(current_address, packet, rest, index)
    /\ UNCHANGED <<network, key_order, strategy, occupancy, packet, current_address, call, route_length>>

GreedyChannelRingRoutePacket ==
    /\ network.kind = "ring"
    /\ ChannelRoute

GreedyChannelTorusRoutePacket ==
    /\ network.kind = "torus"
    /\ ChannelRoute

GreedyChannelStarRoutePacket ==
    /\ network.kind = "star"
    /\ ChannelRoute

GreedyPathRingRoutePacket ==
    /\ network.kind = "ring"
    /\ PathRoute

GreedyPathTorusRoutePacket ==
    /\ network.kind = "torus"
    /\ PathRoute

GreedyPathStarRoutePacket ==
    /\ network.kind = "star"
    /\ PathRoute

Next ==
    \/ Enqueue
    \/ Dequeue
    \/ NewPacket
    \/ GreedyChannelRingRoutePacket
    \/ GreedyChannelTorusRoutePacket
    \/ GreedyChannelStarRoutePacket
    \/ GreedyPathRingRoutePacket
    \/ GreedyPathTorusRoutePacket
    \/ GreedyPathStarRoutePacket

Spec == Init /\ [][Next]_vars

(* --------------------- claims on the distance metrics ----------------- *)
RingCalled == call.fn = "ring.get_distance"

\* C2: on a ring of k nodes, for a # b, get_distance(a, b) is the smaller of
\* the two arc lengths (b - a) mod k and (a - b) mod k, in both argument
\* orders.
C2_RingDistanceIsShorterArc ==
    (RingCalled /\ call.n1 # call.n2) =>
        call.result = Min2(PyMod(call.n2 - call.n1, network.k),
                           PyMod(call.n1 - call.n2, network.k))

\* C3: ring get_distance is symmetric, 0 on identical addresses, and lies in
\* 0..floor(k/2); in particular it is never negative.
C3_RingDistanceSymmetricBounded ==
    RingCalled =>
        /\ call.result = RingGetDistance(network, call.n2, call.n1)
        /\ (call.n1 = call.n2 => call.result = 0)
        /\ 0 <= call.result
        /\ call.result <= network.k \div 2

\* The wrap-around ring distance on an axis of m positions.
AxisRingDistance(m, a, b) == Min2(Abs(a - b), m - Abs(a - b))

\* C4: torus get_distance is the sum of the two per-axis wrap-around ring
\* distances, each taken modulo the size of its axis (the side), so opposite
\* ends of an axis are at distance 1 on that axis.
C4_TorusDistanceIsSumOfAxisRings ==
    call.fn = "torus.get_distance" =>
        call.result = AxisRingDistance(network.k, call.n1[1], call.n2[1])
                      + AxisRingDistance(network.k, call.n1[2], call.n2[2])

\* A hub is a node whose channel count equals the total node count - 1.
IsHub(net, a) == Cardinality(Adjacent(net, a)) = NumNodes(net) - 1

\* C5: star get_distance is 0 exactly when a = b, 1 when a # b and at least
\* one of them is a hub, and 2 when a # b and both are spokes.
C5_StarDistanceTwoTier ==
    call.fn = "star.get_distance" =>
        /\ (call.result = 0 <=> call.n1 = call.n2)
        /\ (call.n1 # call.n2 /\ (IsHub(network, call.n1) \/ IsHub(network, call.n2))
               => call.result = 1)
        /\ (call.n1 # call.n2 /\ ~IsHub(network, call.n1) /\ ~IsHub(network, call.n2)
               => call.result = 2)

\* Witness of C5: on the star with 1 hub and 3 spokes a spoke-to-spoke query
\* has answered 2.
C5_Witness ==
    /\ call.fn = "star.get_distance"
    /\ network = StarNet(1, 3)
    /\ call.n1 # call.n2
    /\ ~IsHub(network, call.n1) /\ ~IsHub(network, call.n2)
    /\ call.result = 2


(* ======================== walk specification ========================== *)
\* One packet is followed across a ring whose occupancies all stay 0: the
\* simulation calls route_packet at the packet's node and moves the packet
\* over the channel it returns.
InitWalk ==
    /\ network \in {RingNet(k) : k \in 2..MaxRing}
    /\ key_order \in {"ascending", "descending"}
    /\ strategy = "channel"
    /\ occupancy = ZeroOccupancy(network)
    /\ packet = NoPacket
    /\ current_address = NoAddress
    /\ ret = NoResult
    /\ call = NoCall
    /\ route_length = 0

\* The node at the other end of channel c from node a.
OtherEnd(c, a) == IF c = {a} THEN a ELSE CHOOSE n \in c : n # a

\* The simulation moves the packet over the channel route_packet returned.
Hop ==
    /\ ret.status = "channel"
    /\ route_length < MaxHops
    /\ current_address' = OtherEnd(ret.channel, current_address)
    /\ route_length' = route_length + 1
    /\ ret' = NoResult
    /\ UNCHANGED <<network, key_order, strategy, occupancy, packet, call>>

NextWalk ==
    \/ NewPacket
    \/ GreedyChannelRingRoutePacket
    \/ Hop

SpecWalk == InitWalk /\ [][NextWalk]_vars

(* ====================== selector specification ======================== *)
\* The candidates handed to greedy_channel_select are the channels of node 0
\* of a star with one hub and n spokes, in address order; the distances and
\* the occupancies attached to the positions range over all values, so that
\* every arrangement of (d, occupancy) pairs occurs.
HubChannels(net) == [i \in 1..net.k2 |-> ChannelOf(0, i)]

InitSelect ==
    /\ network \in {StarNet(1, n) : n \in 1..MaxCandidates}
    /\ key_order = "ascending"
    /\ strategy = "channel"
    /\ occupancy \in [Channels(network) -> 0..MaxOcc]
    /\ packet = NoPacket
    /\ current_address = NoAddress
    /\ ret = NoResult
    /\ call = NoCall
    /\ route_length = 0

CallGreedyChannelSelect ==
    /\ \E ds \in [1..network.k2 -> 0..MaxDist] :
          LET channels == [i \in 1..network.k2 |-> <<ds[i], HubChannels(network)[i]>>]
          IN  \E index \in ChannelDraws(channels, occupancy) :
                 call' = [fn |-> "greedy_channel_select", channels |-> channels,
                          result |-> greedy_channel_select(channels, occupancy, index)]
    /\ UNCHANGED <<network, key_order, strategy, occupancy, packet, current_address, ret, route_length>>

NextSelect == CallGreedyChannelSelect

SpecSelect == InitSelect /\ [][NextSelect]_vars

(* ====================== path-score specification ====================== *)
\* The path handed to compute_path_score runs clockwise from node "from" over
\* "hops" channels of a ring.
ClockwisePath(net, from, hops) ==
    [i \in 1..hops |-> ChannelOf(PyMod(from + i - 1, net.k), PyMod(from + i, net.k))]

InitScore ==
    /\ network \in {RingNet(k) : k \in 2..(MaxPathLen + 1)}
    /\ key_order = "ascending"
    /\ strategy = "path"
    /\ occupancy \in [Channels(network) -> 0..MaxOcc]
    /\ packet = NoPacket
    /\ current_address = NoAddress
    /\ ret = NoResult
    /\ call = NoCall
    /\ route_length = 0

CallComputePathScore ==
    /\ \E from \in Nodes(network), hops \in 1..(network.k - 1) :
          LET path == ClockwisePath(network, from, hops)
          IN  call' = [fn |-> "compute_path_score", path |-> path,
                       result |-> compute_path_score(path, occupancy)]
    /\ UNCHANGED <<network, key_order, strategy, occupancy, packet, current_address, ret, route_length>>

NextScore == CallComputePathScore

SpecScore == InitScore /\ [][NextScore]_vars

(* ----------------------- claims on the selectors ---------------------- *)
SelectCalled == call.fn = "greedy_channel_select"

\* Smallest element of a non-empty finite set of integers.
MinOf(S) == CHOOSE x \in S : \A y \in S : x <= y

\* Positions of the candidates with the minimum (distance + occupancy) score.
MinScorePositions(channels, occ) ==
    LET lo == MinOf({ChannelScore(channels[i], occ) : i \in DOMAIN channels})
    IN  {i \in DOMAIN channels : ChannelScore(channels[i], occ) = lo}

\* Among those, the positions with the minimum raw distance.
WinnerPositions(channels, occ) ==
    LET tied == MinScorePositions(channels, occ)
        lo == MinOf({channels[i][1] : i \in tied})
    IN  {i \in tied : channels[i][1] = lo}

\* C6: when exactly one candidate has the minimum score and, among the
\* candidates tied at that score, the minimum raw distance, that candidate's
\* channel is returned whatever the random source produces.
C6_UniqueWinnerReturned ==
    (SelectCalled /\ Cardinality(WinnerPositions(call.channels, occupancy)) = 1) =>
        \A i \in WinnerPositions(call.channels, occupancy) :
            call.result = Returned(call.channels[i][2])

\* C7: when more than one candidate remains after the two filtering stages,
\* the selector returns one of the remaining candidates for every value of
\* the random index draw (no out-of-range index).
C7_TieBreakNeverFails ==
    (SelectCalled /\ Len(ChannelFiltered(call.channels, occupancy)) > 1) =>
        /\ call.result.status = "channel"
        /\ \E j \in DOMAIN ChannelFiltered(call.channels, occupancy) :
              call.result.channel = ChannelFiltered(call.channels, occupancy)[j][2]

\* C11: for every non-empty candidate list, in any order, the candidate the
\* selector returns has the minimum score over all candidates and, among the
\* candidates with that score, the minimum raw distance; and no candidate
\* with the minimum score and the smallest raw distance among those is
\* discarded by the filtering stages.
C11_ReturnedIsMinimal ==
    SelectCalled =>
        /\ call.result.status = "channel" =>
              \E i \in WinnerPositions(call.channels, occupancy) :
                  call.result.channel = call.channels[i][2]
        /\ \A i \in WinnerPositions(call.channels, occupancy) :
              \E j \in DOMAIN ChannelFiltered(call.channels, occupancy) :
                  ChannelFiltered(call.channels, occupancy)[j] = call.channels[i]

(* ----------------------- claims on the path score --------------------- *)
\* Sum over the hop indices 0..n-1 of max(occupancy(c_i) - i, 0), taken from
\* the last hop backwards.
RECURSIVE ExcessOccupancy(_, _, _)
ExcessOccupancy(path, occ, n) ==
    IF n = 0 THEN 0
    ELSE ExcessOccupancy(path, occ, n - 1)
         + (IF occ[path[n]] > n - 1 THEN occ[path[n]] - (n - 1) ELSE 0)

\* C9: compute_path_score returns n + sum_i max(occupancy(c_i) - i, 0); the
\* score is never below n and equals n exactly when every channel's occupancy
\* is at most its hop index.
C9_PathScoreFormula ==
    call.fn = "compute_path_score" =>
        LET n == Len(call.path)
        IN  /\ call.result = n + ExcessOccupancy(call.path, occupancy, n)
            /\ call.result >= n
            /\ (call.result = n <=>
                   \A i \in 1..n : occupancy[call.path[i]] <= i - 1)

\* Witness of C9: a path of at least two hops whose later hop is occupied
\* beyond its index has been scored above its length.
C9_Witness ==
    /\ call.fn = "compute_path_score"
    /\ Len(call.path) >= 2
    /\ occupancy[call.path[2]] >= 2
    /\ call.result > Len(call.path)


(* ------------------------ claims on route_packet ---------------------- *)
RouteReturned == ret.status # "idle"

\* C1: route_packet returns None if and only if current_address equals
\* packet.destination; in every other case it returns a channel that has the
\* node at current_address as one of its endpoints.
C1_RouteContract ==
    RouteReturned =>
        /\ (ret.status = "None" <=> current_address = packet.destination)
        /\ (current_address # packet.destination =>
               ret.status = "channel" /\ current_address \in ret.channel)

\* The candidates of the pending decision, as scores: one per incident
\* channel in channel mode, one per path in path mode.
CandidateScores ==
    IF strategy = "channel"
    THEN [n \in Adjacent(network, current_address) |->
             GetDistance(network, n, packet.destination)
             + occupancy[ChannelOf(n, current_address)]]
    ELSE LET paths == find_paths(network, current_address, packet.destination, key_order)
         IN  [i \in DOMAIN paths |-> compute_path_score(paths[i], occupancy)]

\* Exactly one candidate has the minimum score.
UniqueMinScore ==
    LET sc == CandidateScores
        lo == MinOf({sc[x] : x \in DOMAIN sc})
    IN  Cardinality({x \in DOMAIN sc : sc[x] = lo}) = 1

\* C8: two calls of route_packet with the same current address, destination
\* and occupancies return the same channel whenever exactly one candidate has
\* the minimum score, for every outcome of the random source.
C8_RouteIdempotent ==
    [][(/\ RouteReturned
        /\ ret'.status # "idle"
        /\ current_address # packet.destination
        /\ UniqueMinScore) => ret' = ret]_vars

\* C10: a call of route_packet, whether it returns a channel, returns None or
\* fails, leaves every channel's occupancy, the network and the packet
\* unchanged.
C10_RouteLeavesStateUnchanged ==
    [][(ret' # ret /\ ret'.status # "idle") =>
          /\ occupancy' = occupancy
          /\ network' = network
          /\ strategy' = strategy
          /\ key_order' = key_order
          /\ packet' = packet
          /\ current_address' = current_address]_vars

\* Witness of C10: route_packet has returned a channel while some channel of
\* the network was occupied.
C10_Witness ==
    /\ ret.status = "channel"
    /\ TotalLoad(occupancy) > 0
    /\ packet # NoPacket

(* ------------------------ claims on the walk -------------------------- *)
\* Length of the shorter arc between nodes a and b of a ring of k nodes.
ShorterArc(k, a, b) == Min2(PyMod(b - a, k), PyMod(a - b, k))

\* C12: on a ring whose occupancies stay 0, a packet moved hop by hop over
\* the channel GreedyChannelRing.route_packet returns gets one hop closer to
\* its destination with every hop, so that it has arrived after exactly
\* min((dest - src) mod k, (src - dest) mod k) hops: the hops made so far
\* plus the shorter arc still ahead always equal the shorter arc from the
\* source.
C12_RingWalkShortestArc ==
    (packet # NoPacket /\ network.kind = "ring") =>
        route_length + ShorterArc(network.k, current_address, packet.destination)
            = ShorterArc(network.k, packet.source, packet.destination)


=============================================================================
